---- MODULE Spec2Model ----
(***************************************************************************)
(* A model of nexpose.py: the client that reconciles a site, starts a scan *)
(* and waits for it, reconciles a report configuration, triggers and waits *)
(* for its generation and downloads the artifact, against a Nexpose        *)
(* service that answers each request faithfully from its state, or with an *)
(* error status, or with a body that is not JSON.                          *)
(*                                                                         *)
(* One action is one HTTP request of the client together with the local    *)
(* processing that follows it up to the next request.  Python's None is    *)
(* the value None below; identifiers are naturals.                         *)
(***************************************************************************)
EXTENDS Integers, Sequences, FiniteSets, TLC

VARIABLES
    sites,          \* service: the sites, in listing order, [id, name]
    scans,          \* service: the scans, in listing order, [id, site, status, by]
                    \*   (by: the client whose request created it, 0 for any other actor)
    reports,        \* service: the report configurations, [id, sites, status, generated]
    clock,          \* service: the time a finished generation is stamped with
    prog,           \* per client: the calling program
    call_no,        \* per client: how many calls of the program have been started
    pc,             \* per client: the request the client issues next
    op,             \* per client: the operation the caller last started
    st,             \* per client: that operation is "running", "returned" or "raised"
    ret,            \* per client: the value that operation returned
    rets,           \* per client: the return values of the program's calls so far
    log,            \* per client: the exchanges [req, resp] of that operation (of a
                    \*   wait loop: its latest poll)
    polls,          \* per client: the polls the wait loop has made
    hits,           \* per client: those of them that saw a terminal status
    posted,         \* per client: the POST requests issued so far, by path
    refused,        \* per client: those of them answered with no success status
    found,          \* per client: the lookup result held by create_site / create_report
    last_page_url,  \* per client: get_last_scan_id's last_page_url
    SCAN_NAME,      \* per client: main's SCAN_NAME
    TARGET_IP,      \* per client: main's TARGET_IP
    site_id,        \* per client: main's site_id
    scan_id,        \* per client: main's scan_id
    report_id,      \* per client: main's report_id
    timestamp,      \* per client: main's timestamp
    complete_seen,  \* per client: some poll of the report's history was seen complete
    dirs,           \* the local filesystem: the directories that exist
    files           \* the local filesystem: the files that exist, [path, content]

service == <<sites, scans, reports, clock>>
client  == <<prog, call_no, pc, op, st, ret, rets, log, polls, hits, posted, refused, found, last_page_url,
             SCAN_NAME, TARGET_IP, site_id, scan_id, report_id, timestamp, complete_seen>>
vars    == <<sites, scans, reports, clock, prog, call_no, pc, op, st, ret, rets,
             log, polls, hits, posted, refused, found, last_page_url, SCAN_NAME, TARGET_IP, site_id, scan_id, report_id,
             timestamp, complete_seen, dirs, files>>

----------------------------------------------------------------------------
(* Bounds of the model. *)
MaxInitSites   == 1
MaxInitScans   == 1
MaxInitReports == 1
MaxReportId    == 1
MaxPolls       == 2
MaxListed      == 4
PageSize       == 2

Clients == {1, 2}
Names   == {"A", "B"}
None    == -1
\* what an evaluation that raises an exception yields
Raises  == -3

Min(S) == CHOOSE x \in S : \A y \in S : x <= y
Last(s) == s[Len(s)]

----------------------------------------------------------------------------
(* HTTP.  A body is a JSON object read with .get(key, default): a key the  *)
(* object lacks reads as its default, so every body carries every key. A   *)
(* body that is not JSON has parse = FALSE and response.json() raises      *)
(* ValueError on it.                                                       *)
Statuses == {200, 201, 500}

Json(resources, links, status, generated, id) ==
    [parse |-> TRUE, resources |-> resources, links |-> links,
     status |-> status, generated |-> generated, id |-> id]
EmptyJson == Json(<<>>, <<>>, "none", None, None)
BadJson   == [parse |-> FALSE, resources |-> <<>>, links |-> <<>>,
              status |-> "none", generated |-> None, id |-> None]

PostPaths == {"sites", "site_scans", "reports", "report_generate"}
Request(m, path, arg) == [m |-> m, path |-> path, arg |-> arg]
Response(status, body) == [status |-> status, body |-> body]

\* the status test every operation but download_report applies
status_codes == {200, 201, 202}
is_success(status) == status \in status_codes

\* What the service may answer to a request it can serve with `json`: any
\* success status with that body or with a body that is not JSON, or an error.
Replies(json) ==
    {Response(s, b) : s \in Statuses \cap status_codes, b \in {json, BadJson}}
      \cup {Response(s, BadJson) : s \in Statuses \ status_codes}
\* What it answers to a request it cannot serve (no such resource).
Refusals == {Response(s, BadJson) : s \in Statuses \ status_codes}

----------------------------------------------------------------------------
(* The service.  It creates a resource exactly when it answers the         *)
(* creation request with a success status.                                 *)
Accepted(resp) == resp.status \in {200, 201, 202}

NewSiteId == Len(sites) + 1
NewScanId == Len(scans) + 1
FreeReportIds == (0..MaxReportId) \ {reports[i].id : i \in 1..Len(reports)}

SitesJson == Json(sites, <<>>, "none", None, None)
SiteExists(id) == \E i \in 1..Len(sites) : sites[i].id = id

----------------------------------------------------------------------------
(* The callers.  "main" is the pipeline of __main__; the other programs    *)
(* call one operation twice in sequence with the same arguments.           *)
after(program, n, o) ==
    CASE program = "main" ->
           (CASE o = "create_site" -> "get_site_id"
              [] o = "get_site_id" -> "start_scan"
              [] o = "start_scan" -> "wait_for_scan_completion"
              [] o = "wait_for_scan_completion" -> "create_report"
              [] o = "create_report" -> "start_report_generation"
              [] o = "start_report_generation" -> "wait_for_report_completion"
              [] o = "wait_for_report_completion" -> "download_report"
              [] OTHER -> "done")
      [] program = "site_twice" -> IF n < 2 THEN "create_site" ELSE "done"
      [] program = "report_twice" -> IF n < 2 THEN "create_report" ELSE "done"
      [] program = "download_twice" -> IF n < 2 THEN "download_report" ELSE "done"
      [] OTHER -> "done"

\* the operation o of client p is under way (it has issued a request and not returned)
Running(p, o) == op[p] = o /\ st[p] = "running"

\* client p issues req within operation o and receives resp
Exchange(p, o, req, resp) ==
    /\ op' = [op EXCEPT ![p] = o]
    /\ log' = [log EXCEPT ![p] = IF Running(p, o)
                                   THEN Append(@, [req |-> req, resp |-> resp])
                                   ELSE <<[req |-> req, resp |-> resp]>>]
    /\ call_no' = [call_no EXCEPT ![p] = IF Running(p, o) THEN @ ELSE @ + 1]
    /\ posted' = IF req.m = "POST"
                 THEN [posted EXCEPT ![p][req.path] = @ + 1]
                 ELSE posted
    /\ refused' = IF req.m = "POST" /\ resp.status \notin {200, 201, 202}
                  THEN [refused EXCEPT ![p][req.path] = @ + 1]
                  ELSE refused
    /\ UNCHANGED <<polls, hits>>

\* client p polls with req within the wait loop o and receives resp, which
\* carries a terminal status or not
Poll(p, o, req, resp, terminal) ==
    /\ op' = [op EXCEPT ![p] = o]
    /\ log' = [log EXCEPT ![p] = <<[req |-> req, resp |-> resp]>>]
    /\ call_no' = [call_no EXCEPT ![p] = IF Running(p, o) THEN @ ELSE @ + 1]
    /\ polls' = [polls EXCEPT ![p] = IF Running(p, o) THEN @ + 1 ELSE 1]
    /\ hits' = [hits EXCEPT ![p] = (IF Running(p, o) THEN @ ELSE 0)
                                     + (IF terminal THEN 1 ELSE 0)]
    /\ UNCHANGED <<posted, refused>>

\* main as it would be if it stopped at a stage that returned no identifier
main_proceeds_validated(o, v) ==
    ~(o \in {"get_site_id", "start_scan", "create_report"} /\ v = None)

\* main runs the next stage whatever the stage o returned: no test of v stands
\* between two calls
main_proceeds(o, v) == TRUE

\* operation o of client p returns v to its caller
Return(p, o, v) ==
    /\ st' = [st EXCEPT ![p] = "returned"]
    /\ ret' = [ret EXCEPT ![p] = v]
    /\ rets' = [rets EXCEPT ![p] = Append(@, v)]
    /\ pc' = [pc EXCEPT ![p] = IF prog[p] = "main" /\ ~main_proceeds(o, v)
                                THEN "done"
                                ELSE after(prog[p], call_no'[p], o)]
    /\ site_id' = IF prog[p] = "main" /\ o = "get_site_id"
                  THEN [site_id EXCEPT ![p] = v] ELSE site_id
    /\ scan_id' = IF prog[p] = "main" /\ o = "start_scan"
                  THEN [scan_id EXCEPT ![p] = v] ELSE scan_id
    /\ report_id' = IF prog[p] = "main" /\ o = "create_report"
                    THEN [report_id EXCEPT ![p] = v] ELSE report_id
    /\ timestamp' = IF prog[p] = "main" /\ o = "wait_for_report_completion"
                    THEN [timestamp EXCEPT ![p] = v] ELSE timestamp

\* operation o of client p goes on to its request `label`
Continue(p, label) ==
    /\ st' = [st EXCEPT ![p] = "running"]
    /\ pc' = [pc EXCEPT ![p] = label]
    /\ UNCHANGED <<ret, rets, site_id, scan_id, report_id, timestamp>>

\* an exception leaves operation o of client p and ends the program
Raise(p) ==
    /\ st' = [st EXCEPT ![p] = "raised"]
    /\ pc' = [pc EXCEPT ![p] = "crashed"]
    /\ UNCHANGED <<ret, rets, site_id, scan_id, report_id, timestamp>>

----------------------------------------------------------------------------
(* Site *)

\* get_site_id as it would be if it took the first site whatever its name
first_site_any_name(resources, name) ==
    IF resources = <<>> THEN None ELSE resources[1].id

\* the first resource named `name`
first_site(resources, name) ==
    LET idx == {i \in 1..Len(resources) : resources[i].name = name}
    IN  IF idx = {} THEN None ELSE resources[Min(idx)].id

get_site_id(resp, name) ==
    IF is_success(resp.status)
    THEN IF resp.body.parse
         THEN first_site(resp.body.resources, name)
         ELSE None                      \* except ValueError
    ELSE None

\* what create_site returns when get_site_id found sid: a bare return
create_site_existing(sid) == None

\* create_site up to and including its get_site_id(name)
create_site(p) ==
    /\ pc[p] = "create_site"
    /\ \E resp \in Replies(SitesJson) :
         LET sid == get_site_id(resp, SCAN_NAME[p]) IN
         /\ Exchange(p, "create_site", Request("GET", "sites", None), resp)
         /\ found' = [found EXCEPT ![p] = sid]
         /\ IF sid # None
            THEN Return(p, "create_site", create_site_existing(sid))
            ELSE Continue(p, "create_site_post")
    /\ UNCHANGED <<service, prog, last_page_url, SCAN_NAME, TARGET_IP, complete_seen, dirs, files>>

\* create_site from its session.post to its end
create_site_post(p) ==
    /\ pc[p] = "create_site_post"
    /\ \E resp \in Replies(EmptyJson) :
         /\ Exchange(p, "create_site", Request("POST", "sites", SCAN_NAME[p]), resp)
         /\ sites' = IF Accepted(resp)
                     THEN Append(sites, [id |-> NewSiteId, name |-> SCAN_NAME[p]])
                     ELSE sites
         /\ Return(p, "create_site", None)
    /\ UNCHANGED <<scans, reports, clock, prog, found, last_page_url, SCAN_NAME, TARGET_IP,
                   complete_seen, dirs, files>>

\* main's site_id = site.get_site_id(SCAN_NAME)
main_get_site_id(p) ==
    /\ pc[p] = "get_site_id"
    /\ \E resp \in Replies(SitesJson) :
         /\ Exchange(p, "get_site_id", Request("GET", "sites", None), resp)
         /\ Return(p, "get_site_id", get_site_id(resp, SCAN_NAME[p]))
    /\ UNCHANGED <<service, prog, found, last_page_url, SCAN_NAME, TARGET_IP, complete_seen, dirs, files>>

----------------------------------------------------------------------------
(* Scan *)

\* the service's pages of the scan listing
NumPages == IF Len(scans) = 0 THEN 1 ELSE (Len(scans) + PageSize - 1) \div PageSize
PageResources(k) ==
    SubSeq(scans, (k - 1) * PageSize + 1, Min({k * PageSize, Len(scans)}))
Link(rel, href) == [rel |-> rel, href |-> href]
\* a listing of several pages links its last page; one of a single page may
PageLinks(k) ==
    IF NumPages > 1
    THEN {<<Link("self", k), Link("last", NumPages)>>}
    ELSE {<<Link("self", k)>>, <<Link("self", k), Link("last", 1)>>}
ScansReplies(k) ==
    UNION {Replies(Json(PageResources(k), l, "none", None, None)) : l \in PageLinks(k)}
ScanExists(id) == \E i \in 1..Len(scans) : scans[i].id = id
ScanOf(id) == scans[CHOOSE i \in 1..Len(scans) : scans[i].id = id]

\* the operation get_last_scan_id runs in: main calls it through start_scan
scan_op(p) == IF prog[p] = "main" THEN "start_scan" ELSE "get_last_scan_id"

\* start_scan as it would be if it listed the scans whatever its POST answered
start_scan_started_always(resp) == TRUE

\* start_scan goes on to get_last_scan_id
start_scan_started(resp) == is_success(resp.status)

\* next((link["href"] for link in links if link["rel"] == "last"), None)
last_link(links) ==
    LET idx == {i \in 1..Len(links) : links[i].rel = "last"}
    IN  IF idx = {} THEN None ELSE links[Min(idx)].href

\* get_last_scan_id as it would be if it took resources[0]
last_scan_id_first(resp) ==
    IF is_success(resp.status)
    THEN IF resp.body.parse
         THEN IF resp.body.resources # <<>>
              THEN resp.body.resources[1].id
              ELSE None
         ELSE None
    ELSE None

\* get_last_scan_id as it would be without its test of resources: resources[-1]
\* raises IndexError on an empty list
last_scan_id_unguarded(resp) ==
    IF is_success(resp.status)
    THEN IF resp.body.parse
         THEN IF resp.body.resources # <<>>
              THEN Last(resp.body.resources).id
              ELSE Raises
         ELSE None
    ELSE None

\* what get_last_scan_id returns on the response for its final page
last_scan_id(resp) ==
    IF is_success(resp.status)
    THEN IF resp.body.parse
         THEN IF resp.body.resources # <<>>
              THEN Last(resp.body.resources).id
              ELSE None
         ELSE None                      \* except ValueError
    ELSE None

\* wait_for_scan_completion as it would be if a failed request ended the wait
scan_completed_or_failed(resp) ==
    \/ ~is_success(resp.status)
    \/ /\ is_success(resp.status)
       /\ resp.body.parse
       /\ resp.body.status \in {"finished", "stopped"}

\* wait_for_scan_completion as it would be if only finished ended the wait
scan_completed_finished_only(resp) ==
    /\ is_success(resp.status)
    /\ resp.body.parse
    /\ resp.body.status = "finished"

\* wait_for_scan_completion returns on this response
scan_completed(resp) ==
    /\ is_success(resp.status)
    /\ resp.body.parse
    /\ resp.body.status \in {"finished", "stopped"}

\* start_scan up to and including its session.post
start_scan(p) ==
    /\ pc[p] = "start_scan"
    /\ \E resp \in IF SiteExists(site_id[p]) THEN Replies(EmptyJson) ELSE Refusals :
         /\ Exchange(p, "start_scan", Request("POST", "site_scans", site_id[p]), resp)
         /\ scans' = IF Accepted(resp)
                     THEN Append(scans, [id |-> NewScanId, site |-> site_id[p],
                                         status |-> "running", by |-> p])
                     ELSE scans
         /\ IF start_scan_started(resp)
            THEN Continue(p, "get_last_scan_id")
            ELSE Return(p, "start_scan", None)
    /\ UNCHANGED <<sites, reports, clock, prog, found, last_page_url, SCAN_NAME, TARGET_IP,
                   complete_seen, dirs, files>>

\* get_last_scan_id up to and including its first session.get
get_last_scan_id(p) ==
    /\ pc[p] = "get_last_scan_id"
    /\ \E resp \in ScansReplies(1) :
         /\ Exchange(p, scan_op(p), Request("GET", "scans", None), resp)
         /\ IF is_success(resp.status)
            THEN IF resp.body.parse
                 THEN /\ last_page_url' =
                            [last_page_url EXCEPT ![p] = last_link(resp.body.links)]
                      /\ Continue(p, "get_last_scan_id_page")
                 ELSE /\ UNCHANGED last_page_url
                      /\ Return(p, scan_op(p), None)
            ELSE /\ UNCHANGED last_page_url
                 /\ Return(p, scan_op(p), None)
    /\ UNCHANGED <<service, prog, found, SCAN_NAME, TARGET_IP, complete_seen, dirs, files>>

\* get_last_scan_id from the request for its final page to its end
get_last_scan_id_page(p) ==
    /\ pc[p] = "get_last_scan_id_page"
    /\ \E resp \in ScansReplies(IF last_page_url[p] # None THEN last_page_url[p] ELSE 1) :
         /\ Exchange(p, scan_op(p), Request("GET", "scans", last_page_url[p]), resp)
         /\ IF last_scan_id(resp) = Raises
            THEN Raise(p)
            ELSE Return(p, scan_op(p), last_scan_id(resp))
    /\ UNCHANGED <<service, prog, found, last_page_url, SCAN_NAME, TARGET_IP, complete_seen,
                   dirs, files>>

\* the polls the wait loop o of client p has made
Polls(p, o) == IF Running(p, o) THEN polls[p] ELSE 0

\* one turn of wait_for_scan_completion's loop
wait_for_scan_completion(p) ==
    /\ pc[p] = "wait_for_scan_completion"
    /\ Polls(p, "wait_for_scan_completion") < MaxPolls
    /\ \E resp \in IF ScanExists(scan_id[p])
                   THEN Replies(Json(<<>>, <<>>, ScanOf(scan_id[p]).status, None, scan_id[p]))
                   ELSE Refusals :
         /\ Poll(p, "wait_for_scan_completion", Request("GET", "scan", scan_id[p]), resp,
                 /\ resp.status \in {200, 201, 202}
                 /\ resp.body.parse
                 /\ resp.body.status \in {"finished", "stopped"})
         /\ IF scan_completed(resp)
            THEN Return(p, "wait_for_scan_completion", None)
            ELSE Continue(p, "wait_for_scan_completion")    \* time.sleep(150)
    /\ UNCHANGED <<service, prog, found, last_page_url, SCAN_NAME, TARGET_IP, complete_seen,
                   dirs, files>>

\* another actor starts a scan of a site: the service creates it
OtherScanStarts ==
    /\ Len(scans) < MaxListed
    /\ \E i \in 1..Len(sites) :
          scans' = Append(scans, [id |-> NewScanId, site |-> sites[i].id,
                                  status |-> "running", by |-> 0])
    /\ UNCHANGED <<sites, reports, clock, client, dirs, files>>

\* the service ends a running scan
ScanEnds ==
    \E i \in 1..Len(scans), s \in {"finished", "stopped"} :
        /\ scans[i].status = "running"
        /\ scans' = [scans EXCEPT ![i].status = s]
        /\ UNCHANGED <<sites, reports, clock, client, dirs, files>>

----------------------------------------------------------------------------
(* ReportGeneration *)

ReportsJson == Json(reports, <<>>, "none", None, None)
ReportExists(id) == \E i \in 1..Len(reports) : reports[i].id = id
ReportIndex(id) == CHOOSE i \in 1..Len(reports) : reports[i].id = id

\* Python's truth value of an identifier or None
truthy(v) == v # None /\ v # 0

\* get_existing_report as it would be without its test of the scope
get_existing_report_any_scope(resp, site) ==
    IF is_success(resp.status)
    THEN IF resp.body.parse
         THEN IF resp.body.resources = <<>>
              THEN None
              ELSE resp.body.resources[1].id
         ELSE None
    ELSE None

\* what get_existing_report returns on the listing's response
get_existing_report(resp, site) ==
    IF is_success(resp.status)
    THEN IF resp.body.parse
         THEN LET idx == {i \in 1..Len(resp.body.resources) :
                             site \in resp.body.resources[i].sites}
              IN  IF idx = {} THEN None ELSE resp.body.resources[Min(idx)].id
         ELSE None                      \* except ValueError
    ELSE None

\* create_report reuses the report get_existing_report returned
create_report_reuses(rid) == truthy(rid)

\* wait_for_report_completion as it would be if a failed request ended the wait
report_completed_or_failed(resp) ==
    \/ ~is_success(resp.status)
    \/ /\ is_success(resp.status)
       /\ resp.body.parse
       /\ resp.body.status = "complete"

\* wait_for_report_completion as it would be if any parsed status ended the wait
report_completed_any_status(resp) ==
    /\ is_success(resp.status)
    /\ resp.body.parse

\* wait_for_report_completion returns on this response
report_completed(resp) ==
    /\ is_success(resp.status)
    /\ resp.body.parse
    /\ resp.body.status = "complete"

\* wait_for_report_completion as it would be with a bare return
report_timestamp_missing(resp) == None

\* what wait_for_report_completion returns on the response it returns on
report_timestamp(resp) == resp.body.generated

\* create_report up to and including its get_existing_report(site_id)
create_report(p) ==
    /\ pc[p] = "create_report"
    /\ \E resp \in Replies(ReportsJson) :
         LET rid == get_existing_report(resp, site_id[p]) IN
         /\ Exchange(p, "create_report", Request("GET", "reports", None), resp)
         /\ found' = [found EXCEPT ![p] = rid]
         /\ IF create_report_reuses(rid)
            THEN Return(p, "create_report", rid)
            ELSE Continue(p, "create_report_post")
    /\ UNCHANGED <<service, prog, last_page_url, SCAN_NAME, TARGET_IP, complete_seen, dirs, files>>

\* create_report from its session.post to its end
create_report_post(p) ==
    /\ pc[p] = "create_report_post"
    /\ \E resp \in IF SiteExists(site_id[p])
                   THEN UNION {Replies(Json(<<>>, <<>>, "none", None, id)) :
                                 id \in FreeReportIds} \cup Refusals
                   ELSE Refusals :
         /\ Exchange(p, "create_report", Request("POST", "reports", site_id[p]), resp)
         /\ reports' = IF Accepted(resp)
                       THEN Append(reports,
                                [id |-> IF resp.body.parse THEN resp.body.id
                                        ELSE Min(FreeReportIds),
                                 sites |-> {site_id[p]},
                                 status |-> "none", generated |-> None])
                       ELSE reports
         /\ IF is_success(resp.status)
            THEN IF resp.body.parse
                 THEN Return(p, "create_report", resp.body.id)
                 ELSE Raise(p)          \* response.json() outside any try
            ELSE Return(p, "create_report", None)
    /\ UNCHANGED <<sites, scans, clock, prog, found, last_page_url, SCAN_NAME, TARGET_IP,
                   complete_seen, dirs, files>>

\* start_report_generation
start_report_generation(p) ==
    /\ pc[p] = "start_report_generation"
    /\ \E resp \in IF ReportExists(report_id[p]) THEN Replies(EmptyJson) ELSE Refusals :
         /\ Exchange(p, "start_report_generation",
                     Request("POST", "report_generate", report_id[p]), resp)
         /\ reports' = IF Accepted(resp)
                       THEN [reports EXCEPT ![ReportIndex(report_id[p])] =
                               [@ EXCEPT !.status = "running", !.generated = None]]
                       ELSE reports
         /\ Return(p, "start_report_generation", None)
    /\ UNCHANGED <<sites, scans, clock, prog, found, last_page_url, SCAN_NAME, TARGET_IP,
                   complete_seen, dirs, files>>

\* the service's latest history of a report: none before its first generation
HistoryReplies(id) ==
    IF ReportExists(id) /\ reports[ReportIndex(id)].status # "none"
    THEN Replies(Json(<<>>, <<>>, reports[ReportIndex(id)].status,
                      reports[ReportIndex(id)].generated, id))
    ELSE Refusals

\* one turn of wait_for_report_completion's loop
wait_for_report_completion(p) ==
    /\ pc[p] = "wait_for_report_completion"
    /\ Polls(p, "wait_for_report_completion") < MaxPolls
    /\ \E resp \in HistoryReplies(report_id[p]) :
         /\ Poll(p, "wait_for_report_completion",
                 Request("GET", "report_history", report_id[p]), resp,
                 /\ resp.status \in {200, 201, 202}
                 /\ resp.body.parse
                 /\ resp.body.status = "complete")
         /\ complete_seen' = [complete_seen EXCEPT ![p] =
                                @ \/ (/\ resp.status \in {200, 201, 202}
                                      /\ resp.body.parse
                                      /\ resp.body.status = "complete")]
         /\ IF report_completed(resp)
            THEN Return(p, "wait_for_report_completion", report_timestamp(resp))
            ELSE Continue(p, "wait_for_report_completion")  \* time.sleep(30)
    /\ UNCHANGED <<service, prog, found, last_page_url, SCAN_NAME, TARGET_IP, dirs, files>>

\* the service finishes a running generation and stamps it
GenerationEnds ==
    \E i \in 1..Len(reports) :
        /\ reports[i].status = "running"
        /\ reports' = [reports EXCEPT ![i] =
                         [@ EXCEPT !.status = "complete", !.generated = clock]]
        /\ clock' = clock + 1
        /\ UNCHANGED <<sites, scans, client, dirs, files>>

----------------------------------------------------------------------------
(* ReportDownloader *)

\* the name 'reports' of the default directory, among the directory names
REPORTS == -2
\* the directory f"{directory_name}_{address}", and the directory directory_name
Suffixed(directory_name, address) == [name |-> directory_name, addr |-> address]
Plain(directory_name) == [name |-> directory_name, addr |-> "none"]
SAVE_FILENAME == "report.pdf"

\* download_report as it would be if one of the two arguments were enough
save_dir_either(directory_name, address) ==
    IF directory_name # None \/ address # "none"
    THEN Suffixed(directory_name, address)
    ELSE Plain(REPORTS)

\* download_report's directory
save_dir(directory_name, address) ==
    IF directory_name # None /\ address # "none"
    THEN Suffixed(directory_name, address)
    ELSE Plain(REPORTS)

\* os.path.join(directory, save_filename)
save_path(directory_name, address) ==
    [dir |-> save_dir(directory_name, address), file |-> SAVE_FILENAME]

\* the directory download_report tests with os.path.exists before os.makedirs
tested_dir(directory_name, address) ==
    IF directory_name # None /\ address # "none"
    THEN Plain(directory_name)
    ELSE Plain(REPORTS)

\* download_report as it would be with the status test of the other operations
download_ok_any_success(resp) == is_success(resp.status)

\* download_report writes the file on this response
download_ok(resp) == resp.status = 200

\* open(save_path, 'wb') and the writes: the file at path holds content
written(path, content) ==
    {f \in files : f.path # path} \cup {[path |-> path, content |-> content]}

\* download_report: os.makedirs raises FileExistsError on a directory that
\* exists, and open raises FileNotFoundError in a directory that does not
download_report(p) ==
    LET dn == timestamp[p]
        ad == TARGET_IP[p]
        made == tested_dir(dn, ad) \notin dirs
        now == IF made THEN dirs \cup {save_dir(dn, ad)} ELSE dirs
    IN
    /\ pc[p] = "download_report"
    /\ IF made /\ save_dir(dn, ad) \in dirs
       THEN /\ op' = [op EXCEPT ![p] = "download_report"]
            /\ log' = [log EXCEPT ![p] = <<>>]
            /\ call_no' = [call_no EXCEPT ![p] = @ + 1]
            /\ UNCHANGED <<polls, hits, posted, refused>>
            /\ Raise(p)
            /\ UNCHANGED <<dirs, files>>
       ELSE \E resp \in IF ReportExists(report_id[p])
                          /\ reports[ReportIndex(report_id[p])].status = "complete"
                        THEN {Response(s, BadJson) : s \in Statuses \cup status_codes}
                        ELSE Refusals :
              /\ Exchange(p, "download_report",
                          Request("GET", "report_output", report_id[p]), resp)
              /\ dirs' = now
              /\ IF download_ok(resp)
                 THEN IF save_dir(dn, ad) \in now
                      THEN /\ files' = written(save_path(dn, ad), report_id[p])
                           /\ Return(p, "download_report", save_path(dn, ad))
                      ELSE /\ UNCHANGED files
                           /\ Raise(p)
                 ELSE /\ UNCHANGED files
                      /\ Return(p, "download_report", None)
    /\ UNCHANGED <<service, prog, found, last_page_url, SCAN_NAME, TARGET_IP,
                   complete_seen>>

----------------------------------------------------------------------------
(* The states after construction. *)

SiteLists ==
    UNION {{[i \in 1..n |-> [id |-> i, name |-> f[i]]] : f \in [1..n -> Names]} :
             n \in 0..MaxInitSites}
\* the scans of earlier runs have ended
ScanLists(most) ==
    {[i \in 1..n |-> [id |-> i, site |-> 1, status |-> "finished", by |-> 0]] :
       n \in 0..most}
\* a report configuration of an earlier run was never generated, or is complete
ReportLists ==
    UNION {{[i \in 1..n |-> [id |-> f[i][3], sites |-> {f[i][1]}, status |-> f[i][2],
                             generated |-> IF f[i][2] = "complete" THEN 0 ELSE None]] :
              f \in {g \in [1..n -> {1, 2} \X {"none", "complete"} \X (0..MaxReportId)] :
                       \A i, j \in 1..n : i # j => g[i][3] # g[j][3]}} :
             n \in 0..MaxInitReports}

InitService ==
    /\ sites \in SiteLists
    /\ scans \in ScanLists(MaxInitScans)
    /\ reports \in ReportLists
    /\ clock = 1

\* the clients of `active` run `program` from `label`; the others run nothing
InitCaller(active, program, label) ==
    /\ prog = [p \in Clients |-> IF p \in active THEN program ELSE "idle"]
    /\ pc = [p \in Clients |-> IF p \in active THEN label ELSE "done"]
    /\ call_no = [p \in Clients |-> 0]
    /\ op = [p \in Clients |-> "none"]
    /\ st = [p \in Clients |-> "returned"]
    /\ ret = [p \in Clients |-> None]
    /\ rets = [p \in Clients |-> <<>>]
    /\ log = [p \in Clients |-> <<>>]
    /\ polls = [p \in Clients |-> 0]
    /\ hits = [p \in Clients |-> 0]
    /\ posted = [p \in Clients |-> [path \in PostPaths |-> 0]]
    /\ refused = [p \in Clients |-> [path \in PostPaths |-> 0]]
    /\ found = [p \in Clients |-> None]
    /\ last_page_url = [p \in Clients |-> None]
    /\ scan_id = [p \in Clients |-> None]
    /\ complete_seen = [p \in Clients |-> FALSE]

\* the same, with nothing generated yet and nothing downloaded yet
InitClient(active, program, label) ==
    /\ InitCaller(active, program, label)
    /\ report_id = [p \in Clients |-> None]
    /\ timestamp = [p \in Clients |-> None]
    /\ TARGET_IP = [p \in Clients |-> "10.0.0.5"]
    /\ dirs = {}
    /\ files = {}

\* __main__: the pipeline
Init ==
    /\ InitService
    /\ InitClient({1}, "main", "create_site")
    /\ SCAN_NAME = [p \in Clients |-> "A"]
    /\ site_id = [p \in Clients |-> None]

Step(p) ==
    \/ create_site(p)
    \/ create_site_post(p)
    \/ main_get_site_id(p)
    \/ start_scan(p)
    \/ get_last_scan_id(p)
    \/ get_last_scan_id_page(p)
    \/ wait_for_scan_completion(p)
    \/ create_report(p)
    \/ create_report_post(p)
    \/ start_report_generation(p)
    \/ wait_for_report_completion(p)
    \/ download_report(p)

Next == Step(1) \/ ScanEnds \/ GenerationEnds

Spec == Init /\ [][Next]_vars

\* create_site called twice in sequence with the same arguments, on any site
\* name; no other actor
InitSite ==
    /\ sites \in SiteLists
    /\ scans = <<>>
    /\ reports = <<>>
    /\ clock = 1
    /\ InitClient({1}, "site_twice", "create_site")
    /\ \E n \in Names : SCAN_NAME = [p \in Clients |-> n]
    /\ site_id = [p \in Clients |-> None]

NextSite == create_site(1) \/ create_site_post(1)

SpecSite == InitSite /\ [][NextSite]_vars

\* create_report called twice in sequence with the same site_id (of a site of
\* the service, or None); no other actor
InitReport ==
    /\ sites \in SiteLists
    /\ scans = <<>>
    /\ reports \in ReportLists
    /\ clock = 1
    /\ InitClient({1}, "report_twice", "create_report")
    /\ SCAN_NAME = [p \in Clients |-> "A"]
    /\ \E s \in {sites[i].id : i \in 1..Len(sites)} \cup {None} :
          site_id = [p \in Clients |-> s]

NextReport == create_report(1) \/ create_report_post(1)

SpecReport == InitReport /\ [][NextReport]_vars

\* each client calls once, with the same arguments as the other, one of the
\* operations that look a resource up, on a service that holds any resources
\* of the kind looked up
InitCall ==
    /\ clock = 1
    /\ SCAN_NAME = [p \in Clients |-> "A"]
    /\ \/ /\ \E o \in {"create_site", "get_site_id"} : InitClient(Clients, "call", o)
          /\ sites \in SiteLists
          /\ scans = <<>>
          /\ reports = <<>>
          /\ site_id = [p \in Clients |-> None]
       \/ /\ InitClient(Clients, "call", "get_last_scan_id")
          /\ sites = <<[id |-> 1, name |-> "A"]>>
          /\ scans \in ScanLists(MaxListed)
          /\ reports = <<>>
          /\ site_id = [p \in Clients |-> None]
       \/ /\ InitClient(Clients, "call", "create_report")
          /\ sites \in SiteLists
          /\ scans = <<>>
          /\ reports \in ReportLists
          /\ \E s \in {sites[i].id : i \in 1..Len(sites)} \cup {None} :
                site_id = [p \in Clients |-> s]

NextCall ==
    \E p \in Clients :
        \/ create_site(p)
        \/ create_site_post(p)
        \/ main_get_site_id(p)
        \/ get_last_scan_id(p)
        \/ get_last_scan_id_page(p)
        \/ create_report(p)
        \/ create_report_post(p)

SpecCall == InitCall /\ [][NextCall]_vars

\* the pipeline from its start_scan(site_id), with the site of an earlier
\* stage, while other actors start scans
InitScan ==
    /\ sites = <<[id |-> 1, name |-> "A"]>>
    /\ scans \in ScanLists(MaxInitScans)
    /\ reports = <<>>
    /\ clock = 1
    /\ InitClient({1}, "main", "start_scan")
    /\ SCAN_NAME = [p \in Clients |-> "A"]
    /\ site_id = [p \in Clients |-> 1]

NextScan ==
    \/ start_scan(1)
    \/ get_last_scan_id(1)
    \/ get_last_scan_id_page(1)
    \/ OtherScanStarts

SpecScan == InitScan /\ [][NextScan]_vars

\* download_report called twice in sequence with the same arguments (each of
\* directory_name and address supplied or not), on any local filesystem
DirectoryNames == {None, 1}
Addresses == {"none", "10.0.0.5"}
Directories == {Plain(REPORTS), Plain(1), Suffixed(1, "10.0.0.5")}
InitDownload ==
    /\ sites = <<[id |-> 1, name |-> "A"]>>
    /\ scans = <<>>
    /\ reports \in ReportLists
    /\ clock = 1
    /\ InitCaller({1}, "download_twice", "download_report")
    /\ SCAN_NAME = [p \in Clients |-> "A"]
    /\ site_id = [p \in Clients |-> 1]
    /\ report_id = [p \in Clients |-> 0]
    /\ \E dn \in DirectoryNames : timestamp = [p \in Clients |-> dn]
    /\ \E ad \in Addresses : TARGET_IP = [p \in Clients |-> ad]
    /\ dirs \in SUBSET Directories
    /\ files \in SUBSET {[path |-> [dir |-> d, file |-> SAVE_FILENAME], content |-> None] :
                            d \in dirs}

NextDownload == download_report(1)

SpecDownload == InitDownload /\ [][NextDownload]_vars

----------------------------------------------------------------------------
(* What the properties below read of a client's latest operation. *)

Returned(p, o) == op[p] = o /\ st[p] = "returned"
Ok(resp) == resp.status \in {200, 201, 202}
Parsed(resp) == Ok(resp) /\ resp.body.parse
\* the exchanges of the operation that are POST requests
Posts(p) == {i \in 1..Len(log[p]) : log[p][i].req.m = "POST"}
\* the sites the listing response names `name`, in listing order
Named(resp, name) ==
    {i \in 1..Len(resp.body.resources) : resp.body.resources[i].name = name}

----------------------------------------------------------------------------
\* C1: create_site called twice in sequence with the same name, whatever the
\* listing requests answer and with no other actor, issues at most one
\* site-creation request in total.
C1_AtMostOneSiteCreation ==
    prog[1] = "site_twice" => posted[1]["sites"] <= 1

\* C2: when the listing names a site with the requested name, create_site
\* returns the id of the first such site and issues no creation request.
C2_ReturnsExistingSiteId ==
    (/\ Returned(1, "create_site")
     /\ Parsed(log[1][1].resp)
     /\ Named(log[1][1].resp, SCAN_NAME[1]) # {})
    => /\ Posts(1) = {}
       /\ ret[1] = log[1][1].resp.body.resources[
                        Min(Named(log[1][1].resp, SCAN_NAME[1]))].id

\* C3: create_report called twice in sequence with the same site id: when the
\* first call returned a report id and the second call's listing is a parsed
\* success that lists that report scoped to the site, the second call issues no
\* creation request and returns the id the first call returned.
C3_SecondCallReusesReport ==
    (/\ prog[1] = "report_twice"
     /\ call_no[1] = 2
     /\ st[1] # "running"
     /\ rets[1] # <<>>
     /\ rets[1][1] # None
     /\ Parsed(log[1][1].resp)
     /\ \E i \in 1..Len(log[1][1].resp.body.resources) :
           /\ log[1][1].resp.body.resources[i].id = rets[1][1]
           /\ site_id[1] \in log[1][1].resp.body.resources[i].sites)
    => /\ Posts(1) = {}
       /\ Returned(1, "create_report")
       /\ ret[1] = rets[1][1]

\* C4: wait_for_scan_completion returns at exactly the first poll that sees a
\* success status with a parsed body whose status is finished or stopped: while
\* it waits no poll has seen one, and when it has returned exactly one poll,
\* the latest, has.
C4_ScanWaitReturnsAtFirstTerminalPoll ==
    \A p \in Clients :
        /\ Running(p, "wait_for_scan_completion") => hits[p] = 0
        /\ Returned(p, "wait_for_scan_completion") =>
              /\ hits[p] = 1
              /\ Parsed(log[p][1].resp)
              /\ log[p][1].resp.body.status \in {"finished", "stopped"}

\* C4 happens: the wait returned on its second poll
C4_Witness ==
    /\ Returned(1, "wait_for_scan_completion")
    /\ polls[1] = 2
    /\ log[1][1].resp.body.status = "stopped"

\* C5: wait_for_report_completion returns at exactly the first poll that is a
\* success with status complete, and returns the generated timestamp of that
\* same response.
C5_ReportWaitReturnsTimestampOfFirstCompletePoll ==
    \A p \in Clients :
        /\ Running(p, "wait_for_report_completion") => hits[p] = 0
        /\ Returned(p, "wait_for_report_completion") =>
              /\ hits[p] = 1
              /\ Parsed(log[p][1].resp)
              /\ log[p][1].resp.body.status = "complete"
              /\ ret[p] = log[p][1].resp.body.generated

\* C5 happens: the wait returned on a later poll the stamp of a generation
\* that ended while it waited
C5_Witness ==
    /\ Returned(1, "wait_for_report_completion")
    /\ polls[1] > 1
    /\ ret[1] >= 1

\* C6: the pipeline issues the download request only after a poll of the
\* report's latest history was seen with status complete.
C6_DownloadOnlyAfterComplete ==
    \A p \in Clients :
        (op[p] = "download_report" /\ log[p] # <<>>) => complete_seen[p]

\* C6 happens: the download request was issued and answered 200
C6_Witness ==
    /\ Returned(1, "download_report")
    /\ log[1][1].req.path = "report_output"
    /\ log[1][1].resp.status = 200

\* C7: no operation lets an exception reach the pipeline, whatever the
\* service answers.
C7_NoExceptionReachesThePipeline ==
    \A p \in Clients : st[p] # "raised"

\* C8: a creation call (create_site, start_scan, create_report) whose POST is
\* answered 500 returns nothing and issues no further request in that call.
C8_FailedCreationStops ==
    \A p \in Clients :
        op[p] \in {"create_site", "start_scan", "create_report"} =>
            \A i \in Posts(p) :
                log[p][i].resp.status = 500 =>
                    /\ i = Len(log[p])
                    /\ st[p] = "returned"
                    /\ ret[p] = None

\* C8 happens: start_scan's POST was answered 500
C8_Witness ==
    /\ Returned(1, "start_scan")
    /\ SiteExists(site_id[1])
    /\ log[1][1].req.m = "POST"
    /\ log[1][1].resp.status = 500

\* the exchanges of get_last_scan_id within the client's latest operation
ScanLog(p) == IF op[p] = "start_scan" THEN Tail(log[p]) ELSE log[p]
\* the client's get_last_scan_id has returned
GotLastScan(p) ==
    \/ Returned(p, "get_last_scan_id")
    \/ Returned(p, "start_scan") /\ Len(log[p]) >= 2

\* C9: get_last_scan_id asks for the page the first link of relation last
\* designates (for the first page again when there is none) and returns the id
\* of the last resource of that page, so never an id of the first page when a
\* distinct last page exists; it returns nothing when that page has no
\* resources or a request fails.
C9_LastScanIdIsLastOfLastPage ==
    \A p \in Clients :
        GotLastScan(p) =>
            LET first == ScanLog(p)[1].resp
                lasts == {i \in 1..Len(first.body.links) : first.body.links[i].rel = "last"}
                designated == IF lasts = {} THEN None
                              ELSE first.body.links[Min(lasts)].href
            IN  IF Len(ScanLog(p)) = 1
                THEN ~Parsed(first) /\ ret[p] = None
                ELSE LET final == ScanLog(p)[2] IN
                     /\ Parsed(first)
                     /\ final.req = Request("GET", "scans", designated)
                     /\ ret[p] = IF Parsed(final.resp) /\ final.resp.body.resources # <<>>
                                 THEN final.resp.body.resources[
                                          Len(final.resp.body.resources)].id
                                 ELSE None
                     /\ (designated \notin {None, 1} /\ ret[p] # None) =>
                            \A i \in 1..Len(first.body.resources) :
                                first.body.resources[i].id # ret[p]

\* C9 happens: the first page links page 2, whose resources are two scans, and
\* the id returned is the second one's
C9_Witness ==
    /\ Returned(1, "get_last_scan_id")
    /\ Len(log[1]) = 2
    /\ Len(log[1][1].resp.body.resources) = 2
    /\ log[1][2].req.arg = 2
    /\ Len(log[1][2].resp.body.resources) = 2
    /\ ret[1] = log[1][2].resp.body.resources[2].id

\* the response that decides the lookup of the client's operation: the listing
\* (of get_last_scan_id: the last response it received)
LookupResp(p) ==
    IF op[p] = "get_last_scan_id" THEN log[p][Len(log[p])].resp ELSE log[p][1].resp
LookupDone(p) ==
    \/ op[p] \in {"create_site", "create_report"}
    \/ op[p] \in {"get_site_id", "get_last_scan_id"} /\ st[p] # "running"
\* the lookup read an empty resources collection (get_last_scan_id reads the
\* resources of its second response only)
SawEmpty(p) ==
    /\ LookupDone(p)
    /\ Parsed(LookupResp(p))
    /\ LookupResp(p).body.resources = <<>>
    /\ op[p] = "get_last_scan_id" => Len(log[p]) = 2
\* the lookup received a success whose body is not JSON
SawUnparseable(p) ==
    /\ LookupDone(p)
    /\ Ok(LookupResp(p))
    /\ ~LookupResp(p).body.parse
\* the lookup gave its caller nothing
GaveNothing(p) ==
    IF op[p] \in {"create_site", "create_report"}
    THEN found[p] = None
    ELSE st[p] = "returned" /\ ret[p] = None
\* the request the lookup's caller issues after it (a request with no method: none)
RequestAfterLookup(p) ==
    IF Len(log[p]) >= 2 /\ op[p] \in {"create_site", "create_report"}
    THEN log[p][2].req
    ELSE IF st[p] = "running" /\ pc[p] = "create_site_post"
         THEN Request("POST", "sites", SCAN_NAME[p])
         ELSE IF st[p] = "running" /\ pc[p] = "create_report_post"
              THEN Request("POST", "reports", site_id[p])
              ELSE Request("none", "none", None)

\* C10: of two calls of the same lookup with the same arguments, one reading an
\* empty resources collection and one receiving a success whose body is not
\* JSON, both give the caller nothing, and the caller goes on to the same
\* request after both.
C10_EmptyAndUnparseableAlike ==
    \A p, q \in Clients :
        (op[p] = op[q] /\ SawEmpty(p) /\ SawUnparseable(q)) =>
            /\ GaveNothing(p)
            /\ GaveNothing(q)
            /\ RequestAfterLookup(p).m = RequestAfterLookup(q).m
            /\ RequestAfterLookup(p).path = RequestAfterLookup(q).path
            /\ RequestAfterLookup(p) = RequestAfterLookup(q)

\* C10 happens: create_report read an empty listing for client 1 and an
\* unparseable one for client 2, and both have issued the creation request
C10_Witness ==
    /\ op[1] = "create_report" /\ op[2] = "create_report"
    /\ SawEmpty(1) /\ SawUnparseable(2)
    /\ Len(log[1]) = 2 /\ Len(log[2]) = 2

----------------------------------------------------------------------------
(* download_report *)

\* the directory and the path of the client's download_report
DownloadDir(p) == save_dir(timestamp[p], TARGET_IP[p])
DownloadPath(p) == [dir |-> DownloadDir(p), file |-> SAVE_FILENAME]
\* the client's download_report has got past its directory step
Requested(p) == op[p] = "download_report" /\ log[p] # <<>>

\* C11: download_report makes sure the directory of save_path exists before
\* the file is written, whatever the local filesystem holds: a directory that
\* exists already raises nothing, so two calls with the same directory_name
\* and address both get through, and the write never goes to a directory that
\* does not exist.
C11_DirectoryEnsured ==
    prog[1] = "download_twice" =>
        /\ st[1] # "raised"
        /\ Requested(1) => DownloadDir(1) \in dirs

\* C12: download_report returns the save path if and only if the download
\* response's status is exactly 200; on every other status, 201 and 202
\* included, it returns nothing and the files are as they were.
C12_PathExactlyOn200 ==
    [][(/\ pc[1] = "download_report"
        /\ op'[1] = "download_report"
        /\ log'[1] # <<>>)
       => IF log'[1][1].resp.status = 200
          THEN st'[1] = "returned" /\ ret'[1] = DownloadPath(1)
          ELSE st'[1] = "returned" /\ ret'[1] = None /\ files' = files]_vars

\* C13: the save path is the directory directory_name joined by an underscore
\* to address, then the filename, exactly when both are supplied; when neither
\* or only one is, it is the default directory reports, then the filename.
C13_SavePath ==
    \A p \in Clients :
        (Requested(p) /\ st[p] = "returned" /\ log[p][1].resp.status = 200) =>
            /\ ret[p].file = SAVE_FILENAME
            /\ ret[p].dir = IF timestamp[p] # None /\ TARGET_IP[p] # "none"
                            THEN [name |-> timestamp[p], addr |-> TARGET_IP[p]]
                            ELSE [name |-> REPORTS, addr |-> "none"]
            /\ \E f \in files : f.path = ret[p]

\* C13 happens: only directory_name was supplied and the file went to reports
C13_Witness ==
    /\ Returned(1, "download_report")
    /\ Requested(1)
    /\ log[1][1].resp.status = 200
    /\ timestamp[1] # None
    /\ TARGET_IP[1] = "none"
    /\ ret[1].dir.name = REPORTS

----------------------------------------------------------------------------
(* start_scan among other actors *)

\* the position in the listing of the scan the client's POST created (0: none)
OwnScan(p) ==
    LET idx == {i \in 1..Len(scans) : scans[i].by = p}
    IN  IF idx = {} THEN 0 ELSE Min(idx)
\* start_scan has returned what get_last_scan_id read off a parsed page that
\* lists scans
ReadLastScan(p) ==
    /\ Returned(p, "start_scan")
    /\ Len(log[p]) = 3
    /\ Parsed(log[p][3].resp)
    /\ log[p][3].resp.body.resources # <<>>

\* C14: start_scan returns what a listing made after its POST ends with: the
\* id of the scan its POST created when no other actor has created a scan
\* since that POST, and otherwise the id of that scan or of a scan another
\* actor created after it.
C14_StartScanInfersId ==
    ReadLastScan(1) =>
        /\ OwnScan(1) # 0
        /\ \E i \in OwnScan(1)..Len(scans) : ret[1] = scans[i].id
        /\ OwnScan(1) = Len(scans) => ret[1] = scans[OwnScan(1)].id

\* C14 happens: another actor created a scan between the POST and the
\* listing, and start_scan returned that scan's id
C14_Witness ==
    /\ ReadLastScan(1)
    /\ \E i \in 1..Len(scans) :
          /\ i > OwnScan(1)
          /\ scans[i].by = 0
          /\ ret[1] = scans[i].id

----------------------------------------------------------------------------
(* two pipelines reconciling the same resource *)

\* the client's lookup read a listing that holds no resource it looks for
ListedNone(p) ==
    /\ op[p] \in {"create_site", "create_report"}
    /\ Parsed(log[p][1].resp)
    /\ IF op[p] = "create_site"
       THEN Named(log[p][1].resp, SCAN_NAME[p]) = {}
       ELSE \A i \in 1..Len(log[p][1].resp.body.resources) :
               site_id[p] \notin log[p][1].resp.body.resources[i].sites
\* the client's creation request was accepted
Created(p) ==
    /\ Len(log[p]) = 2
    /\ log[p][2].req.m = "POST"
    /\ Ok(log[p][2].resp)
\* the resources of the service the clients' calls are about
Same ==
    IF op[1] = "create_site"
    THEN {i \in 1..Len(sites) : sites[i].name = SCAN_NAME[1]}
    ELSE {i \in 1..Len(reports) : site_id[1] \in reports[i].sites}

\* C15: nothing makes the lookup and the creation of create_site, or of
\* create_report, one step: each of two concurrent calls for the same name (the
\* same site id) whose listing held no such resource goes on to its creation
\* request, whatever the other call has done since, and the service then holds
\* one resource of that name (that scope) per accepted request.
C15_CheckThenCreateNotAtomic ==
    (/\ op[1] = op[2]
     /\ ListedNone(1)
     /\ ListedNone(2))
    => /\ \A p \in Clients :
             /\ st[p] = "running" => pc[p] \in {"create_site_post", "create_report_post"}
             /\ st[p] # "running" => Len(log[p]) = 2 /\ log[p][2].req.m = "POST"
       /\ Cardinality(Same) = Cardinality({p \in Clients : Created(p)})

\* C15 happens: both lookups found no site of the name, both creation requests
\* were accepted and the service holds two sites of that name
C15_Witness ==
    /\ op[1] = "create_site" /\ op[2] = "create_site"
    /\ ListedNone(1) /\ ListedNone(2)
    /\ Created(1) /\ Created(2)
    /\ Cardinality({i \in 1..Len(sites) : sites[i].name = SCAN_NAME[1]}) = 2

----------------------------------------------------------------------------
(* the wait loops *)

WaitLoops == {"wait_for_scan_completion", "wait_for_report_completion"}
TerminalOf(w) ==
    IF w = "wait_for_scan_completion" THEN {"finished", "stopped"} ELSE {"complete"}
\* this step is a poll of client p in the wait loop w
PollStep(p, w) == pc[p] = w /\ (op'[p] # op[p] \/ polls'[p] # polls[p])

\* C16: a wait loop returns at a poll that is a success with a parsed body and
\* a terminal status (finished or stopped; complete for a report), however
\* many polls before it failed or were not terminal, and at no other poll:
\* after a poll that failed, did not parse or was not terminal the loop is
\* still waiting, and nothing but a poll ends it.
C16_OnlyATerminalPollEndsTheWait ==
    [][\A p \in Clients : \A w \in WaitLoops :
         /\ PollStep(p, w) =>
               IF /\ Parsed(log'[p][1].resp)
                  /\ log'[p][1].resp.body.status \in TerminalOf(w)
               THEN op'[p] = w /\ st'[p] = "returned" /\ pc'[p] # w
               ELSE op'[p] = w /\ st'[p] = "running" /\ pc'[p] = w
         /\ (Running(p, w) /\ ~PollStep(p, w)) => (op'[p] = w /\ st'[p] = "running")]_vars

\* C16 happens: every poll of the report's history so far has failed, the
\* latest with an error status, and the loop is still waiting
C16_Witness ==
    /\ Running(1, "wait_for_report_completion")
    /\ polls[1] = MaxPolls
    /\ hits[1] = 0
    /\ log[1][1].resp.status = 500
    /\ pc[1] = "wait_for_report_completion"

----------------------------------------------------------------------------
(* a generation trigger that fails *)

\* the pipeline's start_report_generation was answered with no success status
TriggerFailed(p) == prog[p] = "main" /\ refused[p]["report_generate"] >= 1
\* the latest history of the pipeline's report is a completed generation
HasCompleted(p) ==
    /\ ReportExists(report_id[p])
    /\ reports[ReportIndex(report_id[p])].status = "complete"

\* C17 as stated: after a trigger that failed the wait never returns and the
\* download request is never issued, whatever the report id, also for a
\* reused configuration whose latest history is an earlier completed
\* generation.
C17_FailedTriggerBlocksTheWait ==
    \A p \in Clients :
        TriggerFailed(p) =>
            /\ ~Returned(p, "wait_for_report_completion")
            /\ op[p] # "download_report"

\* C17 amended: after a trigger that failed, and with no other actor, the wait
\* never returns and nothing is downloaded when the report's latest history
\* holds no completed generation; when it holds an earlier completed
\* generation the wait returns that generation's timestamp.
C17_FailedTriggerBlocksUnlessCompletedBefore ==
    \A p \in Clients :
        TriggerFailed(p) =>
            /\ ~HasCompleted(p) =>
                  /\ ~Returned(p, "wait_for_report_completion")
                  /\ op[p] # "download_report"
            /\ Returned(p, "wait_for_report_completion") =>
                  /\ HasCompleted(p)
                  /\ ret[p] = reports[ReportIndex(report_id[p])].generated
                  /\ ret[p] < clock

\* C17 happens: the trigger of a configuration never generated failed and the
\* wait has polled as often as it may without returning
C17_Witness ==
    /\ TriggerFailed(1)
    /\ ReportExists(report_id[1])
    /\ ~HasCompleted(1)
    /\ Running(1, "wait_for_report_completion")
    /\ polls[1] = MaxPolls

----------------------------------------------------------------------------
(* the pipeline's stages *)

\* the request that opens the stage o of the pipeline of client p
StageRequest(p, o) ==
    CASE o = "start_scan" -> Request("POST", "site_scans", site_id[p])
      [] o = "wait_for_scan_completion" -> Request("GET", "scan", scan_id[p])
      [] o = "start_report_generation" ->
             Request("POST", "report_generate", report_id[p])
      [] o = "wait_for_report_completion" ->
             Request("GET", "report_history", report_id[p])
      [] OTHER -> Request("GET", "reports", None)

\* C18: the pipeline runs the next stage whatever a stage returned, nothing
\* included: every stage that has returned is followed by the next one, and
\* the scan start, the scan wait, the report creation, the generation trigger
\* and the report wait send the identifier the earlier stage returned, as it
\* is.
C18_StagesRunUnvalidated ==
    \A p \in Clients :
        prog[p] = "main" =>
            /\ (st[p] = "returned" /\ op[p] # "none") =>
                   pc[p] = after("main", call_no[p], op[p])
            /\ Len(rets[p]) >= 2 => site_id[p] = rets[p][2]
            /\ Len(rets[p]) >= 3 => scan_id[p] = rets[p][3]
            /\ Len(rets[p]) >= 5 => report_id[p] = rets[p][5]
            /\ op[p] \in {"start_scan", "wait_for_scan_completion", "create_report",
                          "start_report_generation", "wait_for_report_completion"} =>
                   log[p][1].req = StageRequest(p, op[p])
            /\ (op[p] = "create_report" /\ Len(log[p]) = 2) =>
                   log[p][2].req = Request("POST", "reports", site_id[p])

\* C18 happens: the site stage returned nothing and the scan-start request was
\* issued with that nothing as the site id
C18_Witness ==
    /\ prog[1] = "main"
    /\ op[1] = "start_scan"
    /\ rets[1][2] = None
    /\ log[1][1].req = Request("POST", "site_scans", None)

----------------------------------------------------------------------------
(* the report configuration create_report reuses *)

\* the configurations of the listing whose scope.sites holds the site id
Scoped(resp, site) ==
    {i \in 1..Len(resp.body.resources) : site \in resp.body.resources[i].sites}

\* C19: whenever create_report returns an id without issuing a creation
\* request, the listing was a parsed success and the id is that of the first
\* listed configuration whose scope.sites contains the site id; it is never
\* the id of a configuration whose scope lacks the site id.
C19_ReusesOnlyAScopedReport ==
    \A p \in Clients :
        (Returned(p, "create_report") /\ Posts(p) = {}) =>
            LET resp == log[p][1].resp IN
            /\ Parsed(resp)
            /\ Scoped(resp, site_id[p]) # {}
            /\ ret[p] = resp.body.resources[Min(Scoped(resp, site_id[p]))].id
            /\ \A i \in 1..Len(resp.body.resources) :
                  resp.body.resources[i].id = ret[p] =>
                      site_id[p] \in resp.body.resources[i].sites

\* C19 happens: the first listed configuration is of another site and
\* create_report returned the id of the second
C19_Witness ==
    /\ Returned(1, "create_report")
    /\ Posts(1) = {}
    /\ Len(log[1][1].resp.body.resources) = 2
    /\ site_id[1] \notin log[1][1].resp.body.resources[1].sites
    /\ ret[1] = log[1][1].resp.body.resources[2].id

----------------------------------------------------------------------------
(* the identifiers behind a download *)

\* C20: the service refusing every request for the identifier nothing, the
\* pipeline issues the download request only when site_id, scan_id and
\* report_id are all identifiers; when start_scan returned nothing the
\* pipeline never gets past wait_for_scan_completion, and when create_report
\* returned nothing it never gets past wait_for_report_completion, so neither
\* downloads.
C20_DownloadNeedsEveryId ==
    \A p \in Clients :
        prog[p] = "main" =>
            /\ Requested(p) =>
                  (site_id[p] # None /\ scan_id[p] # None /\ report_id[p] # None)
            /\ (Len(rets[p]) >= 3 /\ rets[p][3] = None) =>
                  /\ op[p] \in {"start_scan", "wait_for_scan_completion"}
                  /\ ~Returned(p, "wait_for_scan_completion")
            /\ (Len(rets[p]) >= 5 /\ rets[p][5] = None) =>
                  /\ op[p] \in {"create_report", "start_report_generation",
                                "wait_for_report_completion"}
                  /\ ~Returned(p, "wait_for_report_completion")

\* C20 happens: the scan was started but its listing failed, start_scan
\* returned nothing and the scan wait has polled as often as it may without
\* returning
C20_Witness ==
    /\ prog[1] = "main"
    /\ \E i \in 1..Len(scans) : scans[i].by = 1
    /\ scan_id[1] = None
    /\ Running(1, "wait_for_scan_completion")
    /\ polls[1] = MaxPolls

====
